---------------------------- MODULE Spec2Model ----------------------------
(***************************************************************************)
(* Model of mkosi's package-manager integration layer:                     *)
(*   src/mkosi/installer/apt.py     (setup_apt, apt_cmd, invoke_apt)        *)
(*   src/mkosi/installer/zypper.py  (setup_zypper, zypper_cmd,              *)
(*                                   invoke_zypper)                        *)
(*                                                                         *)
(* Text is a sequence of tokens.  " " and "\n" are the space and newline   *)
(* characters, "gpgkey=" is spelled out character by character (its        *)
(* length matters), every other token is an atomic piece of text (a word,  *)
(* or a whole descriptor string).  A path is the sequence of its           *)
(* components, "/" first when absolute; a command-line                     *)
(* argument is a sequence of tokens (a key followed by the components of   *)
(* the value interpolated after it).                                       *)
(***************************************************************************)
EXTENDS Integers, Sequences, FiniteSets, TLC

(* ------------------------------ bounds --------------------------------- *)
MaxSetupCalls == 2
MaxRepos == 2
MaxGpgUrls == 3
MaxPackages == 3

(* ------------------------- generic helpers ----------------------------- *)
SP == " "
NL == "\n"

Min(a, b) == IF a < b THEN a ELSE b

Range(s) == {s[i] : i \in 1..Len(s)}

IsPrefix(p, s) == Len(p) <= Len(s) /\ SubSeq(s, 1, Len(p)) = p

RECURSIVE Flatten(_)
Flatten(ss) == IF ss = <<>> THEN <<>> ELSE Head(ss) \o Flatten(Tail(ss))

RECURSIVE Repeat(_, _)
Repeat(x, n) == IF n = 0 THEN <<>> ELSE <<x>> \o Repeat(x, n - 1)

RECURSIVE Count(_, _)
Count(s, x) ==
    IF s = <<>> THEN 0 ELSE (IF Head(s) = x THEN 1 ELSE 0) + Count(Tail(s), x)

\* Sequences over S of length 0..n.
SeqsUpTo(S, n) == UNION {[1..k -> S] : k \in 0..n}

(* ------------------------- textwrap.dedent ----------------------------- *)
\* str.split("\n"): k newlines give k+1 segments.
RECURSIVE SplitLines(_)
SplitLines(t) ==
    IF \A i \in 1..Len(t) : t[i] # NL THEN <<t>>
    ELSE LET k == CHOOSE i \in 1..Len(t) : t[i] = NL /\ \A j \in 1..(i-1) : t[j] # NL
         IN  <<SubSeq(t, 1, k - 1)>> \o SplitLines(SubSeq(t, k + 1, Len(t)))

\* "\n".join(segments)
RECURSIVE JoinLines(_)
JoinLines(ls) ==
    IF Len(ls) = 1 THEN ls[1] ELSE ls[1] \o <<NL>> \o JoinLines(Tail(ls))

RECURSIVE LeadingSpaces(_)
LeadingSpaces(l) ==
    IF l # <<>> /\ Head(l) = SP THEN 1 + LeadingSpaces(Tail(l)) ELSE 0

\* A line made of whitespace only (possibly empty).
IsBlank(l) == LeadingSpaces(l) = Len(l)

RECURSIVE MinIndent(_)
MinIndent(ls) ==
    IF ls = <<>> THEN -1
    ELSE LET rest == MinIndent(Tail(ls))
         IN  IF IsBlank(Head(ls)) THEN rest
             ELSE IF rest = -1 THEN LeadingSpaces(Head(ls))
             ELSE Min(LeadingSpaces(Head(ls)), rest)

\* textwrap.dedent on text whose only whitespace is " " and "\n": lines of
\* whitespace only are emptied, then the leading whitespace common to all
\* remaining lines is removed from every line that carries it.
Dedent(t) ==
    LET ls     == SplitLines(t)
        norm   == [i \in 1..Len(ls) |-> IF IsBlank(ls[i]) THEN <<>> ELSE ls[i]]
        margin == MinIndent(norm)
        strip(l) == IF margin > 0 /\ LeadingSpaces(l) >= margin
                    THEN SubSeq(l, margin + 1, Len(l)) ELSE l
    IN  JoinLines([i \in 1..Len(norm) |-> strip(norm[i])])

Indent(n) == Repeat(SP, n)


(* --------------------------- build context ----------------------------- *)
\* Host paths of the build context.
HostWorkspace == <<"/", "var", "tmp", "mkosi-workspace">>
HostRoot == HostWorkspace \o <<"root">>
DpkgPath == <<"/", "usr", "bin", "dpkg">>

\* The build contexts the driver may hand in: the paths, and the parts of
\* the configuration the two backends read.  tools_has_dpkg says whether the
\* tools tree holds a dpkg binary.
Contexts ==
    [root : {HostRoot}, workspace : {HostWorkspace}, debarch : {"amd64"},
     with_docs : BOOLEAN, with_recommends : BOOLEAN,
     repository_key_check : BOOLEAN, tools_has_dpkg : BOOLEAN]

\* mkosi.config.yes_no
yes_no(b) == IF b THEN "yes" ELSE "no"

\* str(b).lower()
LowerBool(b) == IF b THEN "true" ELSE "false"

\* int(b) formatted in an f-string
IntBool(b) == IF b THEN "1" ELSE "0"

(* ------------------------------ files ---------------------------------- *)
AptConf == "workspace/apt.conf"
SourcesList == "pkgmngr/etc/apt/sources.list"
DpkgStatus == "root/var/lib/dpkg/status"
ZyppConf == "pkgmngr/etc/zypp/zypp.conf"
RepoFile == "pkgmngr/etc/zypp/repos.d/mkosi.repo"

FileNames == {AptConf, SourcesList, DpkgStatus, ZyppConf, RepoFile}

Absent == [exists |-> FALSE, data |-> <<>>]
FileOf(d) == [exists |-> TRUE, data |-> d]

\* One filesystem operation of a setup call.  "mkdir" carries the
\* directories it makes sure exist, "write" the text it appends to the open
\* file, "setup_rpm" is the call of the RPM collaborator.
Op(kind, path, data) == [op |-> kind, path |-> path, data |-> data]

ApplyOp(fs, o) ==
    CASE o.op = "mkdir" -> [fs EXCEPT !.dirs = @ \cup o.data]
      [] o.op = "touch" ->
            IF fs.files[o.path].exists THEN fs
            ELSE [fs EXCEPT !.files[o.path] = FileOf(<<>>)]
      [] o.op = "open_w" -> [fs EXCEPT !.files[o.path] = FileOf(<<>>)]
      [] o.op = "open_a" ->
            IF fs.files[o.path].exists THEN fs
            ELSE [fs EXCEPT !.files[o.path] = FileOf(<<>>)]
      [] o.op = "write" -> [fs EXCEPT !.files[o.path].data = @ \o o.data]
      [] o.op = "setup_rpm" -> [fs EXCEPT !.rpm = TRUE]

\* The filesystem after the first n operations of ops.
RECURSIVE RunOps(_, _, _)
RunOps(fs, ops, n) ==
    IF n = 0 THEN fs ELSE ApplyOp(RunOps(fs, ops, n - 1), ops[n])

\* What a call leaves behind: fault = 0 is a call in which every operation
\* succeeds; fault = k > 0 is a call whose k-th operation raises, so that
\* only the k-1 operations before it have acted.
Executed(ops, fault) == IF fault = 0 THEN Len(ops) ELSE fault - 1

(* ------------------------------ inputs --------------------------------- *)
\* Debian-family repository descriptors are plain strings, one per line.
AptRepos == {"deb http://example/ stable main", "deb http://example/ updates main"}

\* An RpmRepository with n signing-key URLs.
RpmRepo(n) ==
    [id |-> "repo" \o ToString(n),
     url |-> "baseurl=http://example/" \o ToString(n),
     gpgurls |-> [j \in 1..n |-> "http://example/key" \o ToString(j)],
     enabled |-> (n % 2 = 0)]

RpmRepos == {RpmRepo(n) : n \in {0, MaxGpgUrls}}

\* Content a file of the overlay may carry before the first setup call.
UserSources == <<"deb http://user/ stable main", NL>>
UserRepoFile == <<"[", "user", "]", NL, "name=", "user", NL>>
UserZyppConf == {<<"[main]", NL, "solver.onlyRequires", SP, "=", SP, "true", NL>>,
                 <<"solver.onlyRequires", SP, "=", SP, "true">>}

(* ----------------------------- setup_apt ------------------------------- *)
AptConfIndent == 16

AptConfText == Dedent(Indent(AptConfIndent) \o <<"Dir::Etc", SP, "\"etc/apt\";", NL>>
                      \o Indent(AptConfIndent))

SourcesWrites(repos) ==
    [i \in 1..Len(repos) |-> Op("write", SourcesList, <<repos[i], NL>>)]

\* setup_apt as it would be without the existence check on sources.list.
SetupAptOps_Rewrite(fs, repos) ==
       << Op("mkdir", "", {"pkgmngr/etc", "pkgmngr/etc/apt"}),
          Op("mkdir", "", {"pkgmngr/etc/apt/apt.conf.d"}),
          Op("mkdir", "", {"pkgmngr/etc/apt/preferences.d"}),
          Op("mkdir", "", {"pkgmngr/etc/apt/sources.list.d"}),
          Op("mkdir", "", {"root/var", "root/var/lib", "root/var/lib/dpkg"}),
          Op("touch", DpkgStatus, <<>>),
          Op("mkdir", "", {"cache/lib", "cache/lib/apt"}),
          Op("mkdir", "", {"cache/cache", "cache/cache/apt"}) >>
    \o (IF fs.files[AptConf].exists THEN <<>>
        ELSE << Op("open_w", AptConf, <<>>), Op("write", AptConf, AptConfText) >>)
    \o << Op("open_w", SourcesList, <<>>) >> \o SourcesWrites(repos)

SetupAptOps(fs, repos) ==
       << Op("mkdir", "", {"pkgmngr/etc", "pkgmngr/etc/apt"}),
          Op("mkdir", "", {"pkgmngr/etc/apt/apt.conf.d"}),
          Op("mkdir", "", {"pkgmngr/etc/apt/preferences.d"}),
          Op("mkdir", "", {"pkgmngr/etc/apt/sources.list.d"}),
          Op("mkdir", "", {"root/var", "root/var/lib", "root/var/lib/dpkg"}),
          Op("touch", DpkgStatus, <<>>),
          Op("mkdir", "", {"cache/lib", "cache/lib/apt"}),
          Op("mkdir", "", {"cache/cache", "cache/cache/apt"}) >>
    \o (IF fs.files[AptConf].exists THEN <<>>
        ELSE << Op("open_w", AptConf, <<>>), Op("write", AptConf, AptConfText) >>)
    \o (IF fs.files[SourcesList].exists THEN <<>>
        ELSE << Op("open_w", SourcesList, <<>>) >> \o SourcesWrites(repos))

(* ---------------------------- setup_zypper ----------------------------- *)
ZyppConfIndent == 16
RepoIndent == 24

TuningBlock(ctx) ==
    Dedent(<<NL>>
           \o Indent(ZyppConfIndent) \o <<"[main]", NL>>
           \o Indent(ZyppConfIndent)
           \o <<"rpm.install.excludedocs", SP, "=", SP, yes_no(~ctx.with_docs), NL>>
           \o Indent(ZyppConfIndent)
           \o <<"repo.refresh.delay", SP, "=", SP, ToString(48 * 60), NL>>
           \o Indent(ZyppConfIndent))

RepoStanza(repo) ==
    Dedent(Indent(RepoIndent) \o <<"[", repo.id, "]", NL>>
           \o Indent(RepoIndent) \o <<"name=", repo.id, NL>>
           \o Indent(RepoIndent) \o <<repo.url, NL>>
           \o Indent(RepoIndent) \o <<"gpgcheck=1", NL>>
           \o Indent(RepoIndent) \o <<"enabled=", IntBool(repo.enabled), NL>>
           \o Indent(RepoIndent) \o <<"autorefresh=1", NL>>
           \o Indent(RepoIndent) \o <<"keeppackages=1", NL>>
           \o Indent(RepoIndent))

\* The two texts above, computed once per input.
TuningBlockOf == [d \in BOOLEAN |-> TuningBlock([with_docs |-> d])]
RepoStanzaOf == [r \in RpmRepos |-> RepoStanza(r)]

GpgKey == <<"g", "p", "g", "k", "e", "y", "=">>

\* The prefix as it would be with the padding one column short.
GpgPrefix_ShortPad(i) == IF i = 0 THEN GpgKey ELSE Repeat(SP, Len(GpgKey) - 1)

\* The prefix written before the i-th signing-key URL (i counts from 0).
GpgPrefix(i) == IF i = 0 THEN GpgKey ELSE Repeat(SP, Len(GpgKey))

\* for i, url in enumerate(repo.gpgurls): two writes per URL.
GpgWrites(repo) ==
    Flatten([j \in 1..Len(repo.gpgurls) |->
                << Op("write", RepoFile, GpgPrefix(j - 1)),
                   Op("write", RepoFile, <<repo.gpgurls[j], NL>>) >>])

RepoWrites(repos) ==
    Flatten([i \in 1..Len(repos) |->
                << Op("write", RepoFile, RepoStanzaOf[repos[i]]) >>
                \o GpgWrites(repos[i])])

\* setup_zypper as it would be with zypp.conf opened for writing ("w").
SetupZypperOps_Truncate(fs, ctx, repos) ==
       << Op("mkdir", "", {"pkgmngr/etc", "pkgmngr/etc/zypp"}),
          Op("mkdir", "", {"cache/cache", "cache/cache/zypp"}),
          Op("open_w", ZyppConf, <<>>),
          Op("write", ZyppConf, TuningBlockOf[ctx.with_docs]) >>
    \o (IF fs.files[RepoFile].exists THEN <<>>
        ELSE << Op("mkdir", "", {"pkgmngr/etc/zypp/repos.d"}),
                Op("open_w", RepoFile, <<>>) >> \o RepoWrites(repos))
    \o << Op("setup_rpm", "", <<>>) >>

SetupZypperOps(fs, ctx, repos) ==
       << Op("mkdir", "", {"pkgmngr/etc", "pkgmngr/etc/zypp"}),
          Op("mkdir", "", {"cache/cache", "cache/cache/zypp"}),
          Op("open_a", ZyppConf, <<>>),
          Op("write", ZyppConf, TuningBlockOf[ctx.with_docs]) >>
    \o (IF fs.files[RepoFile].exists THEN <<>>
        ELSE << Op("mkdir", "", {"pkgmngr/etc/zypp/repos.d"}),
                Op("open_w", RepoFile, <<>>) >> \o RepoWrites(repos))
    \o << Op("setup_rpm", "", <<>>) >>

\* Whether one of the first n operations writes to the file at path.
Wrote(ops, n, path) ==
    \E i \in 1..n : ops[i].op = "write" /\ ops[i].path = path

(* ---------------------------- sort_packages --------------------------- *)
\* Package names are spelled character by character; characters compare by
\* code point.
CharCode == [c \in {"B", "a", "b"} |-> CASE c = "B" -> 66 [] c = "a" -> 97 [] c = "b" -> 98]

PackageNames == {<<"a">>, <<"a", "b">>, <<"B">>}

\* a < b in the lexicographic order of strings.
RECURSIVE LexLess(_, _)
LexLess(a, b) ==
    IF b = <<>> THEN FALSE
    ELSE IF a = <<>> THEN TRUE
    ELSE IF Head(a) = Head(b) THEN LexLess(Tail(a), Tail(b))
    ELSE CharCode[Head(a)] < CharCode[Head(b)]

\* x put into the sorted sequence s, after the elements not greater than it.
RECURSIVE Insert(_, _)
Insert(x, s) ==
    IF s = <<>> THEN <<x>>
    ELSE IF LexLess(x, Head(s)) THEN <<x>> \o s
    ELSE <<Head(s)>> \o Insert(x, Tail(s))

\* mkosi.util.sort_packages: the names in lexicographic order.
RECURSIVE sort_packages(_)
sort_packages(packages) ==
    IF packages = <<>> THEN <<>>
    ELSE Insert(packages[Len(packages)],
                sort_packages(SubSeq(packages, 1, Len(packages) - 1)))

(* ------------------------------ apt_cmd -------------------------------- *)
\* mkosi.run.find_binary(name, root=tools): the path of the binary, or the
\* missing-tool failure.
find_binary(ctx) ==
    IF ctx.tools_has_dpkg THEN [raised |-> FALSE, path |-> DpkgPath]
    ELSE [raised |-> TRUE, path |-> <<>>]

O == <<"-o">>

AptInsecureFlags ==
    << O, <<"Acquire::AllowInsecureRepositories=true">>,
       O, <<"Acquire::AllowDowngradeToInsecureRepositories=true">>,
       O, <<"APT::Get::AllowUnauthenticated=true">> >>

AptNoDocsFlags ==
    << O, <<"DPkg::Options::=--path-exclude=/usr/share/doc/*">>,
       O, <<"DPkg::Options::=--path-include=/usr/share/doc/*/copyright">>,
       O, <<"DPkg::Options::=--path-exclude=/usr/share/man/*">>,
       O, <<"DPkg::Options::=--path-exclude=/usr/share/groff/*">>,
       O, <<"DPkg::Options::=--path-exclude=/usr/share/info/*">> >>

\* The argument vector of apt_cmd once dpkg has been resolved to dpkg.
AptCmdline(ctx, command, dpkg) ==
    << <<"env">>,
       <<"APT_CONFIG=">> \o ctx.workspace \o <<"apt.conf">>,
       <<"DEBIAN_FRONTEND=noninteractive">>,
       <<"DEBCONF_INTERACTIVE_SEEN=true">>,
       <<"INITRD=No">>,
       <<command>>,
       O, <<"APT::Architecture=", ctx.debarch>>,
       O, <<"APT::Architectures=", ctx.debarch>>,
       O, <<"APT::Install-Recommends=", LowerBool(ctx.with_recommends)>>,
       O, <<"APT::Immediate-Configure=off">>,
       O, <<"APT::Get::Assume-Yes=true">>,
       O, <<"APT::Get::AutomaticRemove=true">>,
       O, <<"APT::Get::Allow-Change-Held-Packages=true">>,
       O, <<"APT::Get::Allow-Remove-Essential=true">>,
       O, <<"APT::Sandbox::User=root">>,
       O, <<"Dir::Cache=", "/", "var", "cache", "apt">>,
       O, <<"Dir::State=", "/", "var", "lib", "apt">>,
       O, <<"Dir::State::Status=">> \o ctx.root \o <<"var", "lib", "dpkg", "status">>,
       O, <<"Dir::Log=">> \o ctx.workspace,
       O, <<"Dir::Bin::DPkg=">> \o dpkg,
       O, <<"Debug::NoLocking=true">>,
       O, <<"DPkg::Options::=--root=">> \o ctx.root,
       O, <<"DPkg::Options::=--force-unsafe-io">>,
       O, <<"DPkg::Options::=--force-architecture">>,
       O, <<"DPkg::Options::=--force-depends">>,
       O, <<"DPkg::Options::=--no-debsig">>,
       O, <<"DPkg::Use-Pty=false">>,
       O, <<"DPkg::Install::Recursive::Minimum=1000">>,
       O, <<"pkgCacheGen::ForceEssential=,">> >>
    \o (IF ~ctx.repository_key_check THEN AptInsecureFlags ELSE <<>>)
    \o (IF ~ctx.with_docs THEN AptNoDocsFlags ELSE <<>>)

\* apt_cmd as it would be if a missing dpkg were formatted into the option.
apt_cmd_Unchecked(ctx, command) ==
    LET dpkg == find_binary(ctx)
    IN  [raised |-> FALSE,
         argv |-> AptCmdline(ctx, command,
                             IF dpkg.raised THEN <<"None">> ELSE dpkg.path)]

\* apt_cmd: a failure of find_binary propagates out of the list display.
apt_cmd(ctx, command) ==
    LET dpkg == find_binary(ctx)
    IN  IF dpkg.raised THEN [raised |-> TRUE, argv |-> <<>>]
        ELSE [raised |-> FALSE, argv |-> AptCmdline(ctx, command, dpkg.path)]

(* ----------------------------- zypper_cmd ------------------------------ *)
\* zypper_cmd as it would be with the cache directory under the host's
\* workspace.
zypper_cmd_HostCache(ctx) ==
    << <<"env">>,
       <<"ZYPP_CONF=", "/", "etc", "zypp", "zypp.conf">>,
       <<"HOME=", "/">>,
       <<"zypper">>,
       <<"--installroot=">> \o ctx.root,
       <<"--cache-dir=">> \o ctx.workspace \o <<"cache", "zypp">>,
       IF ctx.repository_key_check THEN <<"--gpg-auto-import-keys">>
       ELSE <<"--no-gpg-checks">>,
       <<"--non-interactive">> >>

\* zypper_cmd as it would be with the condition of the trust flag inverted.
zypper_cmd_Inverted(ctx) ==
    << <<"env">>,
       <<"ZYPP_CONF=", "/", "etc", "zypp", "zypp.conf">>,
       <<"HOME=", "/">>,
       <<"zypper">>,
       <<"--installroot=">> \o ctx.root,
       <<"--cache-dir=", "/", "var", "cache", "zypp">>,
       IF ~ctx.repository_key_check THEN <<"--gpg-auto-import-keys">>
       ELSE <<"--no-gpg-checks">>,
       <<"--non-interactive">> >>

zypper_cmd(ctx) ==
    << <<"env">>,
       <<"ZYPP_CONF=", "/", "etc", "zypp", "zypp.conf">>,
       <<"HOME=", "/">>,
       <<"zypper">>,
       <<"--installroot=">> \o ctx.root,
       <<"--cache-dir=", "/", "var", "cache", "zypp">>,
       IF ctx.repository_key_check THEN <<"--gpg-auto-import-keys">>
       ELSE <<"--no-gpg-checks">>,
       <<"--non-interactive">> >>

(* ------------------------------ sandbox -------------------------------- *)
\* mkosi.installer.finalize_package_manager_mounts: the persistent mounts
\* of the cache and state directories.
finalize_package_manager_mounts(ctx) == << <<"<package-manager-mounts>">> >>

\* What finalize_ephemeral_source_mounts may yield for a call.
SourceMounts ==
    { <<>>, << <<"--bind">>, <<"/", "home", "src">>, <<"/", "work", "src">> >> }

\* Extra mounts a caller of invoke_apt may pass.
ExtraMounts ==
    { <<>>, << <<"--ro-bind">>, <<"/", "srv", "pkgs">>, <<"/", "work", "pkgs">> >> }

\* context.sandbox(network=True, options=[...]) + apivfs_cmd(...)
Sandbox(ctx, sources, mounts, apivfs) ==
    [network |-> TRUE,
     options |-> << <<"--bind">>, ctx.root, ctx.root >>
                 \o finalize_package_manager_mounts(ctx)
                 \o sources \o mounts
                 \o << <<"--chdir">>, <<"/", "work", "src">> >>,
     apivfs  |-> apivfs]

\* The argument vectors handed to run().
AptArgv(cmdline, operation, packages) ==
    cmdline \o <<<<operation>>>> \o sort_packages(packages)

\* invoke_zypper's vector as it would be with the packages as passed.
ZypperArgv_Unsorted(ctx, verb, options, packages) ==
    zypper_cmd(ctx) \o <<<<verb>>>> \o options \o packages

ZypperArgv(ctx, verb, options, packages) ==
    zypper_cmd(ctx) \o <<<<verb>>>> \o options \o sort_packages(packages)

(* ------------------------------- state --------------------------------- *)
VARIABLES
    backend,      \* "apt" or "zypper": the backend the driver selected
    context,      \* the build context, fixed for the whole build
    files,        \* file name -> [exists, data]
    dirs,         \* the directories that exist
    rpm,          \* whether setup_rpm has acted on the context
    calls,        \* history: setup calls made
    okCalls,      \* history: setup calls that returned normally
    snap,         \* history: files as the first returning setup call left them
    pre,          \* history: files before the first setup call
    appendCalls,  \* history: setup_zypper calls that wrote their tuning block
    writer,       \* history: the call that created the repository file
    recovered,    \* history: a returning call repeated an aborted writer's inputs
    pc,           \* "idle", or "running" while the external process runs
    inv,          \* the current or last invocation
    trace,        \* the events of the current or last invoke call, in order
    outcome       \* how the last invoke call ended

fsVars == <<files, dirs, rpm>>
histVars == <<calls, okCalls, snap, pre, appendCalls, writer, recovered>>
invokeVars == <<pc, inv, trace, outcome>>
vars == <<backend, context, fsVars, histVars, invokeVars>>

NoWriter == [set |-> FALSE, complete |-> FALSE, repos |-> <<>>]
NoSandbox == [network |-> FALSE, options |-> <<>>, apivfs |-> FALSE]
NoInv == [tool |-> "none", argv |-> <<>>, sandbox |-> NoSandbox, packages |-> <<>>,
          options |-> <<>>, head |-> 0, status |-> -1]

InitFiles(b) ==
    IF b = "apt"
    THEN {[f \in FileNames |-> IF f = SourcesList THEN s ELSE Absent] :
             s \in {Absent, FileOf(UserSources)}}
    ELSE {[f \in FileNames |-> IF f = ZyppConf THEN z
                               ELSE IF f = RepoFile THEN r ELSE Absent] :
             z \in {Absent} \cup {FileOf(d) : d \in UserZyppConf},
             r \in {Absent, FileOf(UserRepoFile)}}

Init ==
    /\ backend \in {"apt", "zypper"}
    /\ context \in Contexts
    /\ files \in InitFiles(backend)
    /\ dirs = {}
    /\ rpm = FALSE
    /\ calls = 0
    /\ okCalls = 0
    /\ snap = files
    /\ pre = files
    /\ appendCalls = 0
    /\ writer = NoWriter
    /\ recovered = FALSE
    /\ pc = "idle"
    /\ inv = NoInv
    /\ trace = <<>>
    /\ outcome = "none"

(* --------------------------- setup actions ----------------------------- *)
\* The repository file of the selected backend.
ReposFileOf(b) == IF b = "apt" THEN SourcesList ELSE RepoFile

\* A setup call whose operations are ops, given repos, with the fault at
\* position fault (0: none): the filesystem and the history after it.
SetupCall(ops, repos, fault) ==
    LET n    == Executed(ops, fault)
        fs   == RunOps([files |-> files, dirs |-> dirs, rpm |-> rpm], ops, n)
        rf   == ReposFileOf(backend)
        ok   == fault = 0
        made == \E i \in 1..n : ops[i].op = "open_w" /\ ops[i].path = rf
        all  == \A i \in 1..Len(ops) : ops[i].path = rf => i <= n
    IN  /\ files' = fs.files
        /\ dirs' = fs.dirs
        /\ rpm' = fs.rpm
        /\ calls' = calls + 1
        /\ okCalls' = IF ok THEN okCalls + 1 ELSE okCalls
        /\ snap' = IF ok /\ okCalls = 0 THEN fs.files ELSE snap
        /\ appendCalls' = IF Wrote(ops, n, ZyppConf) THEN appendCalls + 1
                          ELSE appendCalls
        /\ writer' = IF made THEN [set |-> TRUE, complete |-> all, repos |-> repos]
                     ELSE writer
        /\ recovered' = (recovered \/ (ok /\ writer.set /\ ~writer.complete
                                          /\ repos = writer.repos))
        /\ UNCHANGED <<backend, context, pre, invokeVars>>

SetupApt(repos) ==
    /\ backend = "apt"
    /\ pc = "idle"
    /\ calls < MaxSetupCalls
    /\ LET ops == SetupAptOps([files |-> files, dirs |-> dirs, rpm |-> rpm], repos)
       IN  \E fault \in 0..Len(ops) : SetupCall(ops, repos, fault)

SetupZypper(repos) ==
    /\ backend = "zypper"
    /\ pc = "idle"
    /\ calls < MaxSetupCalls
    /\ LET ops == SetupZypperOps([files |-> files, dirs |-> dirs, rpm |-> rpm],
                                 context, repos)
       IN  \E fault \in 0..Len(ops) : SetupCall(ops, repos, fault)

NextSetup ==
    \/ \E repos \in SeqsUpTo(AptRepos, MaxRepos) : SetupApt(repos)
    \/ \E repos \in SeqsUpTo(RpmRepos, MaxRepos) : SetupZypper(repos)

\* setup reads nothing of the configuration but the docs policy.
InitSetup ==
    /\ Init
    /\ context.with_recommends
    /\ context.repository_key_check
    /\ context.tools_has_dpkg

SpecSetup == InitSetup /\ [][NextSetup]_vars

(* --------------------------- invoke actions ---------------------------- *)
ExitStatuses == {0, 1, 100}
ZypperOptions == { <<>>, << <<"--download-only">> >> }

\* invoke_apt up to the point where run() has started the external process.
\* The with block is entered first ("mount"); apt_cmd is evaluated as the
\* first argument of run(), so its failure leaves the with block ("unmount")
\* and reaches the caller before anything is started.
InvokeApt(command, operation, packages, apivfs, mounts, sources) ==
    /\ backend = "apt"
    /\ pc = "idle"
    /\ LET cmd == apt_cmd(context, command)
       IN  IF cmd.raised
           THEN /\ inv' = [NoInv EXCEPT !.tool = "apt", !.packages = packages]
                /\ trace' = <<"mount", "unmount">>
                /\ outcome' = "MissingToolError"
                /\ pc' = "returned"
           ELSE /\ inv' = [tool |-> "apt",
                           argv |-> AptArgv(cmd.argv, operation, packages),
                           sandbox |-> Sandbox(context, sources, mounts, apivfs),
                           packages |-> packages,
                           options |-> <<>>,
                           head |-> Len(cmd.argv),
                           status |-> -1]
                /\ trace' = <<"mount", "start">>
                /\ outcome' = "none"
                /\ pc' = "running"
    /\ UNCHANGED <<backend, context, fsVars, histVars>>

\* invoke_zypper up to the point where run() has started the process.
InvokeZypper(verb, packages, options, apivfs, sources) ==
    /\ backend = "zypper"
    /\ pc = "idle"
    /\ inv' = [tool |-> "zypper",
               argv |-> ZypperArgv(context, verb, options, packages),
               sandbox |-> Sandbox(context, sources, <<>>, apivfs),
               packages |-> packages,
               options |-> options,
               head |-> Len(zypper_cmd(context)),
               status |-> -1]
    /\ trace' = <<"mount", "start">>
    /\ outcome' = "none"
    /\ pc' = "running"
    /\ UNCHANGED <<backend, context, fsVars, histVars>>

\* mkosi.run.run once the process has exited: a non-zero status raises.
RunRaises(status) == status # 0

\* invoke_apt as it would be if it started the process again on a failure.
AptProcessExit_Retry(status) ==
    /\ pc = "running"
    /\ inv.tool = "apt"
    /\ inv' = [inv EXCEPT !.status = status]
    /\ trace' = trace \o (IF RunRaises(status) THEN <<"exit", "start">>
                          ELSE <<"exit", "unmount">>)
    /\ outcome' = IF RunRaises(status) THEN "none" ELSE "ok"
    /\ pc' = IF RunRaises(status) THEN "running" ELSE "returned"
    /\ UNCHANGED <<backend, context, fsVars, histVars>>

\* The rest of invoke_apt: run() returns or raises, the with block is left.
AptProcessExit(status) ==
    /\ pc = "running"
    /\ inv.tool = "apt"
    /\ inv' = [inv EXCEPT !.status = status]
    /\ trace' = trace \o <<"exit", "unmount">>
    /\ outcome' = IF RunRaises(status) THEN "InvocationFailure" ELSE "ok"
    /\ pc' = "returned"
    /\ UNCHANGED <<backend, context, fsVars, histVars>>

\* invoke_zypper as it would be with fixup_rpmdb_location inside the with
\* block.
ZypperProcessExit_InsideWith(status) ==
    /\ pc = "running"
    /\ inv.tool = "zypper"
    /\ inv' = [inv EXCEPT !.status = status]
    /\ trace' = trace \o (IF RunRaises(status) THEN <<"exit", "unmount">>
                          ELSE <<"exit", "fixup", "unmount">>)
    /\ outcome' = IF RunRaises(status) THEN "InvocationFailure" ELSE "ok"
    /\ pc' = "returned"
    /\ UNCHANGED <<backend, context, fsVars, histVars>>

\* The rest of invoke_zypper: run() returns or raises, the with block is
\* left, and fixup_rpmdb_location runs on the normal path only.
ZypperProcessExit(status) ==
    /\ pc = "running"
    /\ inv.tool = "zypper"
    /\ inv' = [inv EXCEPT !.status = status]
    /\ trace' = trace \o <<"exit", "unmount">>
                      \o (IF RunRaises(status) THEN <<>> ELSE <<"fixup">>)
    /\ outcome' = IF RunRaises(status) THEN "InvocationFailure" ELSE "ok"
    /\ pc' = "returned"
    /\ UNCHANGED <<backend, context, fsVars, histVars>>

\* The caller takes the result; the call's frame is gone.
CallerResumes ==
    /\ pc = "returned"
    /\ pc' = "idle"
    /\ inv' = NoInv
    /\ trace' = <<>>
    /\ outcome' = "none"
    /\ UNCHANGED <<backend, context, fsVars, histVars>>

NextInvoke ==
    \/ \E packages \in SeqsUpTo(PackageNames, MaxPackages), apivfs \in BOOLEAN,
          mounts \in ExtraMounts, sources \in SourceMounts :
          InvokeApt("apt-get", "install", packages, apivfs, mounts, sources)
    \/ \E packages \in SeqsUpTo(PackageNames, MaxPackages), apivfs \in BOOLEAN,
          options \in ZypperOptions, sources \in SourceMounts :
          InvokeZypper("install", packages, options, apivfs, sources)
    \/ \E status \in ExitStatuses : AptProcessExit(status)
    \/ \E status \in ExitStatuses : ZypperProcessExit(status)
    \/ CallerResumes

\* invoke reads none of the files setup writes.
InitInvoke == Init /\ \A f \in FileNames : ~files[f].exists

SpecInvoke == InitInvoke /\ [][NextInvoke]_vars

(* ------------------------- the whole program --------------------------- *)
\* setup writes fsVars and histVars and reads nothing of an invocation;
\* invoke writes invokeVars and reads no file.  Callers serialize the calls
\* (pc = "idle"), so SpecSetup and SpecInvoke are the two projections of
\* Spec, and the properties are checked on them.
Next == NextSetup \/ NextInvoke

Spec == Init /\ [][Next]_vars

(* ======================= properties: setup ============================= *)
\* The files a backend writes only when they do not exist yet.
WriteOnceFiles == IF backend = "apt" THEN {AptConf, SourcesList} ELSE {RepoFile}

\* C1: after one or more setup calls the write-once files have the content
\* the first returning call left them with, and no setup call, whatever
\* repos it is given and however it ends, changes a write-once file that
\* already exists.
C1_WriteOnce ==
    /\ [](okCalls >= 1 =>
            \A f \in WriteOnceFiles : files[f].exists /\ files[f] = snap[f])
    /\ [][\A f \in WriteOnceFiles : files[f].exists => files'[f] = files[f]]_vars

\* C1 witness: a second call has returned on a context whose repository
\* file the first call wrote.
C1_Witness ==
    /\ okCalls >= 2
    /\ writer.set /\ writer.complete /\ writer.repos # <<>>
    /\ files[ReposFileOf(backend)].data # <<>>

\* The tuning block as it has to appear in zypp.conf.
ExpectedTuningBlock ==
    << NL, "[main]", NL,
       "rpm.install.excludedocs", SP, "=", SP,
       (IF context.with_docs THEN "no" ELSE "yes"), NL,
       "repo.refresh.delay", SP, "=", SP, "2880", NL >>

\* C2: setup_zypper only appends to zypp.conf: every step keeps the old
\* content as a prefix, and the file is its content before the first call
\* followed by one tuning block per call that wrote (every returning call
\* wrote exactly one).
C2_AppendOnly ==
    /\ [](/\ files[ZyppConf].data =
               pre[ZyppConf].data \o Flatten(Repeat(ExpectedTuningBlock, appendCalls))
          /\ backend = "zypper" => okCalls <= appendCalls
          /\ appendCalls <= calls)
    /\ [][IsPrefix(files[ZyppConf].data, files'[ZyppConf].data)]_vars

\* C2 witness: two returning calls on a context with a user-provided
\* zypp.conf.
C2_Witness ==
    /\ backend = "zypper"
    /\ pre[ZyppConf].exists /\ pre[ZyppConf].data # <<>>
    /\ okCalls = 2 /\ appendCalls = 2

\* The lines of the stanza (and gpgkey lines) expected for one descriptor.
ExpectedRepoLines(repo) ==
    << <<"[", repo.id, "]">>,
       <<"name=", repo.id>>,
       <<repo.url>>,
       <<"gpgcheck=1">>,
       <<"enabled=", IF repo.enabled THEN "1" ELSE "0">>,
       <<"autorefresh=1">>,
       <<"keeppackages=1">> >>
    \o [j \in 1..Len(repo.gpgurls) |->
           IF j = 1 THEN <<"g", "p", "g", "k", "e", "y", "=", repo.gpgurls[1]>>
           ELSE <<SP, SP, SP, SP, SP, SP, SP, repo.gpgurls[j]>>]

\* C9: the block written for a descriptor with N signing-key URLs is its
\* seven stanza lines followed by exactly N gpgkey lines in URL order: the
\* first "gpgkey=" and the URL, each later one seven spaces and the URL.
C9_GpgKeyLines ==
    (backend = "zypper" /\ writer.set /\ writer.complete) =>
        SplitLines(files[RepoFile].data) =
            Flatten([i \in 1..Len(writer.repos) |-> ExpectedRepoLines(writer.repos[i])])
            \o << <<>> >>

\* C9 witness: a repo file written from a descriptor with three or more
\* signing-key URLs, after one without any.
C9_Witness ==
    /\ backend = "zypper" /\ writer.set /\ writer.complete
    /\ Len(writer.repos) = 2
    /\ Len(writer.repos[1].gpgurls) = 0
    /\ Len(writer.repos[2].gpgurls) >= 3

\* The repository file a single uninterrupted setup call with repos leaves
\* on a context that has none.
Uninterrupted(repos) ==
    LET fresh == [files |-> [f \in FileNames |-> Absent], dirs |-> {}, rpm |-> FALSE]
        ops   == IF backend = "apt" THEN SetupAptOps(fresh, repos)
                 ELSE SetupZypperOps(fresh, context, repos)
    IN  RunOps(fresh, ops, Len(ops)).files[ReposFileOf(backend)].data

\* C10: once a setup call has aborted after creating the repository file
\* and a later call with the same repos has returned, the file has the
\* content an uninterrupted setup would have produced.
C10_RetryCompletes ==
    recovered => files[ReposFileOf(backend)].data = Uninterrupted(writer.repos)

(* ======================= properties: invoke ============================ *)
\* The part of the argument vector that apt_cmd or zypper_cmd built.
CmdPart == SubSeq(inv.argv, 1, inv.head)

\* The package arguments: what follows the operation or verb and the options.
PackagePart == SubSeq(inv.argv, inv.head + 2 + Len(inv.options), Len(inv.argv))

Started == \E i \in 1..Len(trace) : trace[i] = "start"

IsPerm(p, q) ==
    /\ Len(p) = Len(q)
    /\ \A x \in Range(p) \cup Range(q) : Count(p, x) = Count(q, x)

Perms(p) == {q \in [1..Len(p) -> Range(p)] : IsPerm(p, q)}

\* The argument vector the started invocation would have had for packages q.
ArgvFor(q) ==
    IF inv.tool = "apt"
    THEN AptArgv(CmdPart, inv.argv[inv.head + 1][1], q)
    ELSE ZypperArgv(context, inv.argv[inv.head + 1][1], inv.options, q)

\* C3: the packages follow the operation or verb (and the options) in
\* lexicographic order, and every permutation of the packages the caller
\* passed yields the same argument vector.
C3_SortedPackages ==
    Started =>
        /\ IsPerm(PackagePart, inv.packages)
        /\ \A i \in 1..(Len(PackagePart) - 1) :
              ~LexLess(PackagePart[i + 1], PackagePart[i])
        /\ \A q \in Perms(inv.packages) : ArgvFor(q) = inv.argv

\* C3 witness: an invocation whose caller passed three packages out of order.
C3_Witness ==
    /\ Started
    /\ Len(inv.packages) = 3
    /\ LexLess(inv.packages[2], inv.packages[1])
    /\ LexLess(inv.packages[3], inv.packages[2])

\* Positions of an event in the trace.
At(e) == {i \in 1..Len(trace) : trace[i] = e}

\* C4 as stated: whenever the process invoke_zypper started has completed
\* and the call has returned, fixup_rpmdb_location has run exactly once,
\* after the process and its mounts were gone.
C4_FixupWheneverExited ==
    (inv.tool = "zypper" /\ pc = "returned" /\ At("exit") # {}) =>
        /\ Cardinality(At("fixup")) = 1
        /\ \A i \in At("fixup") : \A j \in At("exit") \cup At("unmount") : j < i

\* C4 amended: fixup_rpmdb_location runs exactly once, after the process has
\* exited and the mounts are gone and before the call returns, when the
\* process exited with status 0; it does not run when the status is
\* non-zero, and never before or while the process or the mounts are active.
C4_FixupAfterSuccess ==
    inv.tool = "zypper" =>
        /\ Cardinality(At("fixup")) <= 1
        /\ pc = "running" => At("fixup") = {}
        /\ pc = "returned" => (Cardinality(At("fixup")) = 1 <=> inv.status = 0)
        /\ \A i \in At("fixup") :
              /\ At("exit") # {} /\ At("unmount") # {}
              /\ \A j \in At("mount") \cup At("start") \cup At("exit") \cup At("unmount") :
                    j < i

\* C4 witness: invoke_zypper has returned after a process that exited 0.
C4_Witness ==
    /\ inv.tool = "zypper" /\ pc = "returned" /\ inv.status = 0
    /\ trace = <<"mount", "start", "exit", "unmount", "fixup">>

Holds(arg, p) ==
    \E k \in 1..Len(arg) : k + Len(p) - 1 <= Len(arg) /\ SubSeq(arg, k, k + Len(p) - 1) = p

HostDerived(arg) == Holds(arg, context.root) \/ Holds(arg, context.workspace)

\* C7 as stated: no argument apt_cmd or zypper_cmd builds is derived from a
\* host path of the build context.
C7_NoHostPaths ==
    Started => \A i \in 1..inv.head : ~HostDerived(inv.argv[i])

\* The arguments that carry the paths C7 lists.
SandboxRelativeArgs ==
    IF inv.tool = "apt"
    THEN { <<"Dir::Cache=", "/", "var", "cache", "apt">>,
           <<"Dir::State=", "/", "var", "lib", "apt">> }
    ELSE { <<"ZYPP_CONF=", "/", "etc", "zypp", "zypp.conf">>,
           <<"--cache-dir=", "/", "var", "cache", "zypp">> }

HostPathArgs ==
    IF inv.tool = "apt"
    THEN { <<"APT_CONFIG=">> \o context.workspace \o <<"apt.conf">>,
           <<"Dir::State::Status=">> \o context.root \o <<"var", "lib", "dpkg", "status">>,
           <<"Dir::Log=">> \o context.workspace,
           <<"DPkg::Options::=--root=">> \o context.root }
    ELSE { <<"--installroot=">> \o context.root }

\* C7 amended: the cache and state directories and ZYPP_CONF are fixed paths
\* relative to the sandboxed root; the config file pointer APT_CONFIG, the
\* dpkg status file, the log directory, dpkg --root and --installroot are
\* host paths of the build context, and they are the only arguments derived
\* from one; the sandbox binds context.root at the same path.
C7_HostPathsBound ==
    Started =>
        /\ \A a \in SandboxRelativeArgs : a \in Range(CmdPart) /\ ~HostDerived(a)
        /\ \A a \in HostPathArgs : a \in Range(CmdPart)
        /\ \A i \in 1..inv.head : HostDerived(inv.argv[i]) <=> inv.argv[i] \in HostPathArgs
        /\ SubSeq(inv.sandbox.options, 1, 3) = << <<"--bind">>, context.root, context.root >>

\* C7 witness: an apt invocation has been started.
C7_Witness ==
    /\ Started /\ inv.tool = "apt" /\ pc = "running"
    /\ \E i \in 1..inv.head : HostDerived(inv.argv[i])

\* C8: zypper_cmd carries exactly one of --gpg-auto-import-keys and
\* --no-gpg-checks, the former iff signature checking is enabled; apt_cmd
\* carries each of the three insecure-repository flags once iff signature
\* checking is disabled, and none of them otherwise.
C8_TrustToggle ==
    Started =>
        IF inv.tool = "zypper"
        THEN /\ Count(CmdPart, <<"--gpg-auto-import-keys">>)
                   = (IF context.repository_key_check THEN 1 ELSE 0)
             /\ Count(CmdPart, <<"--no-gpg-checks">>)
                   = (IF context.repository_key_check THEN 0 ELSE 1)
        ELSE \A f \in { <<"Acquire::AllowInsecureRepositories=true">>,
                        <<"Acquire::AllowDowngradeToInsecureRepositories=true">>,
                        <<"APT::Get::AllowUnauthenticated=true">> } :
                Count(CmdPart, f) = (IF context.repository_key_check THEN 0 ELSE 1)

\* C8 witness: an apt invocation started with signature checking disabled.
C8_Witness ==
    /\ Started /\ inv.tool = "apt" /\ ~context.repository_key_check
    /\ <<"APT::Get::AllowUnauthenticated=true">> \in Range(CmdPart)

=============================================================================
